---- MODULE Spec2Model ----
(***************************************************************************)
(* The point-sampling engine of ViaStitching/FillArea.py: the three fill   *)
(* strategies GridFillStrategy, StarFillStrategy and BridsonFillStrategy.  *)
(*                                                                         *)
(* Coordinates, ranges and centre_spacing are integers (board units).      *)
(* cell_size = centre_spacing / sqrt(2) is irrational, so every comparison *)
(* against a multiple of it is done on squares:                            *)
(*      n * cell_size <= d   <=>   n^2 * spacing^2 <= 2 * d^2   (n, d >= 0)*)
(* random.random() / random.uniform() are nondeterministic choices over    *)
(* every integer point the rounded result can be.                          *)
(***************************************************************************)
EXTENDS Integers, Sequences, FiniteSets, Bags, TLC

VARIABLES strategy, x_range, y_range, centre_spacing, pred,
          checked, points,
          pc, i, j, t, active, base, out,
          calls, evals, evalAt, pushed, popped, prevOut

vars == <<strategy, x_range, y_range, centre_spacing, pred, checked, points,
          pc, i, j, t, active, base, out,
          calls, evals, evalAt, pushed, popped, prevOut>>

params == <<strategy, x_range, y_range, centre_spacing, pred>>

(* ----------------------------- bounds ---------------------------------- *)
\* Bridson inputs: range minima 0..MaxMin, range maxima 0..MaxCoord
MaxCoord == 5

MaxMin == 1

\* Bridson inputs: centre_spacing
Spacing == 3

\* Bridson inputs: a predicate other than the always-true one is run on grids of
\* at most this many cells
MaxFilteredCells == 2

\* the termination check (FairSpec) runs Bridson on ranges (0, x1), (0, y1) with
\* y1 <= LiveMaxY
LiveMaxY == 3

\* Grid and Star inputs: range maxima 0..LatticeMaxCoord, centre_spacing
\* 1..LatticeMaxSpacing
LatticeMaxCoord == 10

LatticeMaxSpacing == 5

\* generate_points() is called at most this many times on one instance
MaxCalls == 2

(* ------------------------- program constants --------------------------- *)
\* self.k = 10
K == 10

\* None (an empty grid slot)
NoPoint == <<>>

Abs(n) == IF n < 0 THEN -n ELSE n

Sq(n) == n * n

Max0(n) == IF n < 0 THEN 0 ELSE n

(* ------------------------- the predicate ------------------------------- *)
\* the caller-supplied valid_predicate: a pure function of (x, y)
PredicateNames == {"all", "none", "parity"}

valid_predicate(x, y) ==
    CASE pred = "all" -> TRUE
      [] pred = "none" -> FALSE
      [] pred = "parity" -> (x + y) % 2 = 0

(* --------------------- arithmetic with sqrt(2) ------------------------- *)
\* floor(d * sqrt(2) / s) for d >= 0: d / (s / sqrt(2)) rounded down
FloorCells(d, s) ==
    CHOOSE n \in 0..(2 * d) : Sq(n) * Sq(s) <= 2 * Sq(d) /\ Sq(n + 1) * Sq(s) > 2 * Sq(d)

\* floor(d / (sqrt(2) * s)) for d >= 0: d / (2 * s / sqrt(2)) rounded down
FloorDoubleCells(d, s) ==
    CHOOSE n \in 0..d : 2 * Sq(n) * Sq(s) <= Sq(d) /\ 2 * Sq(n + 1) * Sq(s) > Sq(d)

\* int(x): truncation towards zero of a quotient whose magnitude floors to f
Trunc(d, f) == IF d >= 0 THEN f ELSE -f

\* round(m * s / sqrt(2)) for m >= 0: the nearest integer (never a tie for m > 0)
RoundCells(m, s) ==
    CHOOSE n \in 0..(m * s) :
        /\ Sq(2 * n + 1) > 2 * Sq(m) * Sq(s)
        /\ (n = 0 \/ Sq(2 * n - 1) < 2 * Sq(m) * Sq(s))

(* ------------------ BridsonFillStrategy.__init__ ----------------------- *)
\* the step count with the "+ 1" of the Grid and Star strategies
StepsOfPlusOne(range, s) ==
    LET d == range[2] - range[1] IN Trunc(d, FloorCells(Abs(d), s)) + 1

\* self._x_steps = int((x_range[1] - x_range[0]) / self._cell_size)
StepsOf(range, s) ==
    LET d == range[2] - range[1] IN Trunc(d, FloorCells(Abs(d), s))

x_steps == StepsOf(x_range, centre_spacing)

y_steps == StepsOf(y_range, centre_spacing)

\* the index pairs [i][j] of self._checked and self._points (a Bridson instance
\* has them, the other two strategies do not)
Slots ==
    IF strategy = "bridson" THEN (0..(y_steps - 1)) \X (0..(x_steps - 1)) ELSE {}

\* the grid as the constructor leaves it
NewChecked == [c \in Slots |-> FALSE]

NewPoints == [c \in Slots |-> NoPoint]

(* ------------------------- _cell_index --------------------------------- *)
\* math.floor((coordinate - range minimum) / self._cell_size)
FloorIndex(d, s) == IF d >= 0 THEN FloorCells(d, s) ELSE -FloorCells(-d, s) - 1

\* _cell_index(point) returns (x_i, y_i); as a slot that is [y_i][x_i]
CellSlot(p) ==
    <<FloorIndex(p[2] - y_range[1], centre_spacing),
      FloorIndex(p[1] - x_range[1], centre_spacing)>>

(* --------------------------- _is_valid --------------------------------- *)
\* OFFSETS with the entry (-1, 0) left out
OFFSETS_MissingLeft ==
    { <<-1, -1>>, <<-1, 1>>, <<0, 1>>, <<1, 1>>, <<1, 0>>, <<1, -1>>, <<0, -1>>,
      <<-2, -1>>, <<-2, 0>>, <<-2, 1>>, <<-1, 2>>, <<0, 2>>, <<1, 2>>, <<2, 1>>, <<2, 0>>,
      <<2, -1>>, <<1, -2>>, <<0, -2>>, <<-1, -2>> }

\* OFFSETS of _is_valid, as (ox_i, oy_i)
OFFSETS ==
    { <<-1, -1>>, <<-1, 0>>, <<-1, 1>>, <<0, 1>>, <<1, 1>>, <<1, 0>>, <<1, -1>>, <<0, -1>>,
      <<-2, -1>>, <<-2, 0>>, <<-2, 1>>, <<-1, 2>>, <<0, 2>>, <<1, 2>>, <<2, 1>>, <<2, 0>>,
      <<2, -1>>, <<1, -2>>, <<0, -2>>, <<-1, -2>> }

\* x_i < 0 or x_i >= self._x_steps or y_i < 0 or y_i >= self._y_steps is false
InGrid(c) == c[2] >= 0 /\ c[2] < x_steps /\ c[1] >= 0 /\ c[1] < y_steps

\* math.sqrt((nbr[0] - point[0]) ** 2 + (nbr[1] - point[1]) ** 2) < self.centre_spacing
Nearer(a, b, s) == Sq(a[1] - b[1]) + Sq(a[2] - b[2]) < Sq(s)

\* the loop over OFFSETS returns False
NeighbourTooClose(p, pts) ==
    LET c == CellSlot(p) IN
    \E o \in OFFSETS :
        LET n == <<c[1] + o[2], c[2] + o[1]>> IN
        /\ InGrid(n)
        /\ pts[n] # NoPoint
        /\ Nearer(pts[n], p, centre_spacing)

\* none of the three early returns of _is_valid is taken
PassesCheapChecks(p, pts) ==
    LET c == CellSlot(p) IN
    /\ InGrid(c)
    /\ pts[c] = NoPoint
    /\ ~NeighbourTooClose(p, pts)

\* _is_valid returning True past the neighbour loop, the predicate never called
IsValidWithoutPredicate(p, pts) == <<FALSE, PassesCheapChecks(p, pts)>>

\* _is_valid calling the predicate first, the cheap checks after it
IsValidPredicateFirst(p, pts) ==
    <<TRUE, valid_predicate(p[1], p[2]) /\ PassesCheapChecks(p, pts)>>

\* _is_valid(point) as <<whether it evaluated valid_predicate, what it returned>>:
\* the predicate is the last line, reached only past the three early returns
_is_valid(p, pts) ==
    LET reached == PassesCheapChecks(p, pts)
    IN <<reached, reached /\ valid_predicate(p[1], p[2])>>

(* ------------------- the random candidate points ----------------------- *)
\* the integers int(round(minimum + (n + random.random()) * self._cell_size))
\* can be, less the minimum: those whose rounding interval meets
\* [n * cell_size, (n + 1) * cell_size)
CellCoords(n, s) ==
    { v \in 0..((n + 1) * s) :
        /\ Sq(2 * v + 1) > 2 * Sq(n) * Sq(s)
        /\ (v = 0 \/ Sq(2 * v - 1) < 2 * Sq(n + 1) * Sq(s)) }

\* _generate_random_point_in_cell(i, j)
RandomPointsInCell(r, c) ==
    { <<x_range[1] + vx, y_range[1] + vy>> :
        vx \in CellCoords(c, centre_spacing), vy \in CellCoords(r, centre_spacing) }

\* the offsets one point of _generate_bridson_points(base) can have from base:
\* the unit square that rounds to the offset meets the annulus
\* centre_spacing <= r < 2 * centre_spacing
BridsonOffsets(s) ==
    { o \in ((-2 * s)..(2 * s)) \X ((-2 * s)..(2 * s)) :
        /\ Sq(Max0(2 * Abs(o[1]) - 1)) + Sq(Max0(2 * Abs(o[2]) - 1)) < 16 * Sq(s)
        /\ Sq(2 * Abs(o[1]) + 1) + Sq(2 * Abs(o[2]) + 1) >= 4 * Sq(s) }

\* the values one point of _generate_bridson_points(b) can take
BridsonPoints(b) ==
    { <<b[1] + o[1], b[2] + o[2]>> : o \in BridsonOffsets(centre_spacing) }

\* the coordinates whose _cell_index is inside the grid
InsideXs ==
    { x \in x_range[1]..x_range[2] : FloorCells(x - x_range[1], centre_spacing) < x_steps }

InsideYs ==
    { y \in y_range[1]..y_range[2] : FloorCells(y - y_range[1], centre_spacing) < y_steps }

\* A set of candidates with the same outcomes as S: _is_valid returns False at its
\* bounds check for every candidate outside the grid and changes nothing, so one
\* such candidate stands for all of them.
Outcomes(S) ==
    LET inside == S \cap (InsideXs \X InsideYs)
        outside == S \ inside
    IN inside \cup (IF outside = {} THEN {} ELSE {CHOOSE p \in outside : TRUE})

(* ------------------ Grid and Star generate_points ---------------------- *)
\* the Grid step count without the "+ 1"
GridStepsNoEndpoint(range, s) ==
    LET d == range[2] - range[1] IN Trunc(d, Abs(d) \div s)

\* int((range[1] - range[0]) / self.centre_spacing) + 1
GridSteps(range, s) ==
    LET d == range[2] - range[1] IN Trunc(d, Abs(d) \div s) + 1

\* int((x_range[1] - x_range[0]) / (2 * spacing)) + 1, spacing = centre_spacing / sqrt(2)
StarXSteps(range, s) ==
    LET d == range[2] - range[1] IN Trunc(d, FloorDoubleCells(Abs(d), s)) + 1

\* int((y_range[1] - y_range[0]) / spacing) + 1
StarYSteps(range, s) ==
    LET d == range[2] - range[1] IN Trunc(d, FloorCells(Abs(d), s)) + 1

\* the candidates in the order of the two nested loops (x_i outer, y_i inner)
LoopOrder(xs, ys) ==
    [n \in 1..(Max0(xs) * Max0(ys)) |-> <<(n - 1) \div ys, (n - 1) % ys>>]

\* (int(round(x_i * spacing + x_range[0])), int(round(y_i * spacing + y_range[0])))
GridCandidate(x_i, y_i) ==
    <<x_i * centre_spacing + x_range[1], y_i * centre_spacing + y_range[1]>>

\* (int(round(x_i * 2 * spacing + x_range[0] + (spacing if y_i % 2 else 0.0))),
\*  int(round(y_i * spacing + y_range[0])))
StarCandidate(x_i, y_i) ==
    <<x_range[1] + RoundCells(2 * x_i + (IF y_i % 2 = 1 THEN 1 ELSE 0), centre_spacing),
      y_range[1] + RoundCells(y_i, centre_spacing)>>

\* if self.valid_predicate(x, y): points.append((x, y))
Keep(p) == valid_predicate(p[1], p[2])

GridCandidates ==
    LET order == LoopOrder(GridSteps(x_range, centre_spacing), GridSteps(y_range, centre_spacing))
    IN [n \in DOMAIN order |-> GridCandidate(order[n][1], order[n][2])]

StarCandidates ==
    LET order == LoopOrder(StarXSteps(x_range, centre_spacing), StarYSteps(y_range, centre_spacing))
    IN [n \in DOMAIN order |-> StarCandidate(order[n][1], order[n][2])]

GridPoints == SelectSeq(GridCandidates, Keep)

StarPoints == SelectSeq(StarCandidates, Keep)

(* ------------------ Bridson generate_points: the output ---------------- *)
\* the output collected without the test "if point"
RowMajorKeepingEmpty(pts) ==
    [n \in 1..(Max0(y_steps) * Max0(x_steps)) |->
        pts[<<(n - 1) \div x_steps, (n - 1) % x_steps>>]]

\* for row in self._points: for point in row: if point: points.append(point)
RowMajor(pts) ==
    LET all == [n \in 1..(Max0(y_steps) * Max0(x_steps)) |->
                    pts[<<(n - 1) \div x_steps, (n - 1) % x_steps>>]]
        Present(p) == p # NoPoint
    IN SelectSeq(all, Present)

\* the while loop never entered
LoopNever(a) == FALSE

\* while active:
LoopAgain(a) == a # <<>>

\* the checked flag ignored by the outer scan
NeverChecked(c) == FALSE

\* if self._checked[i][j]: continue
AlreadyChecked(c) == checked[c]

\* a round that is not counted
NextRoundStuck(n) == n

\* for _ in range(self.k) / for j in range(self.k): the round after round n
NextRound(n) == n + 1

\* both for loops of generate_points have run out
ScanOver == y_steps <= 0 \/ x_steps <= 0 \/ i >= y_steps

(* ------------------------------ states --------------------------------- *)
Ranges == (0..MaxMin) \X (0..MaxCoord)

LatticeRanges == (0..MaxMin) \X (0..LatticeMaxCoord)

\* the state FillStrategy.__init__ leaves (Grid and Star have no grid)
InitLattice ==
    /\ strategy \in {"grid", "star"}
    /\ x_range \in LatticeRanges
    /\ y_range \in LatticeRanges
    /\ centre_spacing \in 1..LatticeMaxSpacing
    /\ pred \in PredicateNames
    /\ checked = << >>
    /\ points = << >>

\* the state BridsonFillStrategy.__init__ leaves
InitBridson ==
    /\ strategy = "bridson"
    /\ x_range \in Ranges
    /\ y_range \in Ranges
    /\ centre_spacing = Spacing
    /\ pred \in PredicateNames
    /\ (pred # "all" => Max0(x_steps) * Max0(y_steps) <= MaxFilteredCells)
    /\ checked = NewChecked
    /\ points = NewPoints

Init ==
    /\ (InitLattice \/ InitBridson)
    /\ pc = "idle"
    /\ i = 0 /\ j = 0 /\ t = 0
    /\ active = <<>>
    /\ base = NoPoint
    /\ out = <<>>
    /\ calls = 0 /\ evals = 0
    /\ evalAt = NoPoint
    /\ pushed = EmptyBag /\ popped = EmptyBag
    /\ prevOut = <<>>

\* GridFillStrategy.generate_points(), the whole call
GridGenerate ==
    /\ strategy = "grid" /\ pc \in {"idle", "done"} /\ calls < MaxCalls
    /\ out' = GridPoints
    /\ prevOut' = out
    /\ evals' = Len(GridCandidates)
    /\ calls' = calls + 1
    /\ pc' = "done"
    /\ UNCHANGED <<params, checked, points, i, j, t, active, base, evalAt, pushed, popped>>

\* StarFillStrategy.generate_points(), the whole call
StarGenerate ==
    /\ strategy = "star" /\ pc \in {"idle", "done"} /\ calls < MaxCalls
    /\ out' = StarPoints
    /\ prevOut' = out
    /\ evals' = Len(StarCandidates)
    /\ calls' = calls + 1
    /\ pc' = "done"
    /\ UNCHANGED <<params, checked, points, i, j, t, active, base, evalAt, pushed, popped>>

\* generate_points() making its grid anew on entry
CallOnFreshGrid ==
    /\ strategy = "bridson" /\ pc \in {"idle", "done"} /\ calls < MaxCalls
    /\ active' = <<>>
    /\ i' = 0 /\ j' = 0 /\ t' = 0
    /\ base' = NoPoint
    /\ out' = <<>>
    /\ prevOut' = out
    /\ calls' = calls + 1
    /\ evals' = 0 /\ evalAt' = NoPoint
    /\ pushed' = EmptyBag /\ popped' = EmptyBag
    /\ pc' = "scan"
    /\ checked' = NewChecked
    /\ points' = NewPoints
    /\ UNCHANGED params

\* BridsonFillStrategy.generate_points() is entered: active = []
Call ==
    /\ strategy = "bridson" /\ pc \in {"idle", "done"} /\ calls < MaxCalls
    /\ active' = <<>>
    /\ i' = 0 /\ j' = 0 /\ t' = 0
    /\ base' = NoPoint
    /\ out' = <<>>
    /\ prevOut' = out
    /\ calls' = calls + 1
    /\ evals' = 0 /\ evalAt' = NoPoint
    /\ pushed' = EmptyBag /\ popped' = EmptyBag
    /\ pc' = "scan"
    /\ UNCHANGED <<params, checked, points>>

\* the loop variables after this cell: the next j, or the next row
Advance ==
    /\ i' = IF j + 1 < x_steps THEN i ELSE i + 1
    /\ j' = IF j + 1 < x_steps THEN j + 1 ELSE 0
    /\ t' = 0
    /\ pc' = "scan"

\* if self._checked[i][j]: continue
ScanSkip ==
    /\ pc = "scan" /\ ~ScanOver
    /\ AlreadyChecked(<<i, j>>)
    /\ Advance
    /\ evalAt' = NoPoint
    /\ UNCHANGED <<params, checked, points, active, base, out, calls, evals,
                   pushed, popped, prevOut>>

\* one round of: for _ in range(self.k), in an unchecked cell; t rounds are done
SeedAttempt ==
    /\ pc = "scan" /\ ~ScanOver
    /\ ~AlreadyChecked(<<i, j>>)
    /\ \E p \in Outcomes(RandomPointsInCell(i, j)) :
        LET v == _is_valid(p, points) IN
        /\ evals' = evals + (IF v[1] THEN 1 ELSE 0)
        /\ evalAt' = IF v[1] THEN p ELSE NoPoint
        /\ IF v[2]
           THEN /\ points' = [points EXCEPT ![<<i, j>>] = p]
                /\ active' = Append(active, p)
                /\ pushed' = pushed (+) SetToBag({p})
                /\ checked' = [checked EXCEPT ![<<i, j>>] = TRUE]
                /\ t' = 0
                /\ pc' = "drain"
           ELSE /\ UNCHANGED <<points, active, pushed>>
                /\ IF NextRound(t) < K
                   THEN t' = NextRound(t) /\ UNCHANGED <<checked, pc>>
                   ELSE /\ checked' = [checked EXCEPT ![<<i, j>>] = TRUE]
                        /\ t' = 0
                        /\ pc' = "drain"
    /\ UNCHANGED <<params, i, j, base, out, calls, popped, prevOut>>

\* while active: base = active.pop()
DrainPop ==
    /\ pc = "drain"
    /\ LoopAgain(active)
    /\ base' = active[Len(active)]
    /\ active' = SubSeq(active, 1, Len(active) - 1)
    /\ popped' = popped (+) SetToBag({active[Len(active)]})
    /\ t' = 0
    /\ pc' = "offspring"
    /\ evalAt' = NoPoint
    /\ UNCHANGED <<params, checked, points, i, j, out, calls, evals, pushed, prevOut>>

\* the while loop ends: on to the next cell
DrainDone ==
    /\ pc = "drain"
    /\ ~LoopAgain(active)
    /\ Advance
    /\ base' = NoPoint
    /\ evalAt' = NoPoint
    /\ UNCHANGED <<params, checked, points, active, out, calls, evals,
                   pushed, popped, prevOut>>

\* one round of: for point in random_points, the t-th point of
\* _generate_bridson_points(base)
OffspringAttempt ==
    /\ pc = "offspring"
    /\ \E p \in Outcomes(BridsonPoints(base)) :
        LET v == _is_valid(p, points) IN
        /\ evals' = evals + (IF v[1] THEN 1 ELSE 0)
        /\ evalAt' = IF v[1] THEN p ELSE NoPoint
        /\ IF v[2]
           THEN /\ points' = [points EXCEPT ![CellSlot(p)] = p]
                /\ active' = Append(active, p)
                /\ pushed' = pushed (+) SetToBag({p})
                /\ checked' = [checked EXCEPT ![CellSlot(p)] = TRUE]
           ELSE UNCHANGED <<points, active, pushed, checked>>
    /\ IF NextRound(t) < K
       THEN t' = NextRound(t) /\ UNCHANGED <<pc, base>>
       ELSE t' = 0 /\ pc' = "drain" /\ base' = NoPoint
    /\ UNCHANGED <<params, i, j, out, calls, popped, prevOut>>

\* the loops are over: collect the points and return them
Collect ==
    /\ pc = "scan" /\ ScanOver
    /\ out' = RowMajor(points)
    /\ pc' = "done"
    /\ evalAt' = NoPoint
    /\ UNCHANGED <<params, checked, points, i, j, t, active, base, calls, evals,
                   pushed, popped, prevOut>>

LatticeNext ==
    \/ GridGenerate
    \/ StarGenerate

BridsonNext ==
    \/ Call
    \/ ScanSkip
    \/ SeedAttempt
    \/ DrainPop
    \/ DrainDone
    \/ OffspringAttempt
    \/ Collect

Next == LatticeNext \/ BridsonNext

Spec == Init /\ [][Next]_vars

\* Bridson instances on ranges (0, x1), (0, y1) with y1 <= LiveMaxY
InitLive ==
    /\ Init
    /\ strategy = "bridson"
    /\ x_range[1] = 0
    /\ y_range[1] = 0 /\ y_range[2] <= LiveMaxY

\* The program always takes its next step: generate_points() is synchronous and
\* single-threaded, with no suspension point, so a step that can be taken is taken.
FairSpec == InitLive /\ [][BridsonNext]_vars /\ WF_vars(BridsonNext)

(* ============================ the claims =============================== *)
Dist2(a, b) == Sq(a[1] - b[1]) + Sq(a[2] - b[2])

Occupied == { c \in Slots : points[c] # NoPoint }

Returned(s) == strategy = s /\ pc = "done"

C2_Containment ==
    pc = "done" => \A n \in 1..Len(out) : valid_predicate(out[n][1], out[n][2])

\* Bridson has returned two or more points under a predicate that rejects some
\* candidates, and has evaluated it more often than it accepted
C2_Witness ==
    /\ Returned("bridson") /\ pred = "parity"
    /\ Len(out) >= 2
    /\ evals > Len(out)

\* max <= min
Degenerate(range) == range[2] <= range[1]

PastGridPitch(range, s) == range[2] - range[1] <= -s

\* max - min <= -(2 * centre_spacing / sqrt(2))
PastStarXPitch(range, s) ==
    range[2] < range[1] /\ Sq(range[2] - range[1]) >= 2 * Sq(s)

\* max - min <= -(centre_spacing / sqrt(2))
PastStarYPitch(range, s) ==
    range[2] < range[1] /\ 2 * Sq(range[2] - range[1]) >= Sq(s)

AtEntry == strategy = "bridson" /\ pc = "scan" /\ i = 0 /\ j = 0 /\ t = 0

Cells == Max0(x_steps) * Max0(y_steps)

\* C5: BridsonFillStrategy.generate_points() terminates whatever the predicate and
\* the random draws are; it accepts at most one point per grid cell, and
\* evaluates the predicate at most 2 * k * cells times.
C5_Termination ==
    /\ [](strategy = "bridson" =>
            /\ BagCardinality(pushed) <= Cells
            /\ evals <= 2 * K * Cells)
    /\ []((strategy = "bridson" /\ pc \in {"scan", "drain", "offspring"}) => <>(pc = "done"))

\* the always-false predicate was evaluated k times in each of two or more cells,
\* and the call has returned
C5_Witness ==
    /\ Returned("bridson") /\ pred = "none"
    /\ Cells >= 2
    /\ evals = K * Cells

\* C6: with an always-true predicate and max > min on both axes,
\* GridFillStrategy.generate_points() returns exactly the x_steps * y_steps lattice
\* points (x0 + i * spacing, y0 + j * spacing), x_steps = floor((x1 - x0) / spacing) + 1,
\* y_steps likewise; (0,10) x (0,10) with spacing 5 gives {0,5,10} x {0,5,10}.
C6_GridCardinality ==
    (Returned("grid") /\ pred = "all" /\ ~Degenerate(x_range) /\ ~Degenerate(y_range)) =>
        LET xs == ((x_range[2] - x_range[1]) \div centre_spacing) + 1
            ys == ((y_range[2] - y_range[1]) \div centre_spacing) + 1
            lattice == { <<x_range[1] + a * centre_spacing, y_range[1] + b * centre_spacing>> :
                            a \in 0..(xs - 1), b \in 0..(ys - 1) }
        IN /\ Len(out) = xs * ys
           /\ { out[n] : n \in 1..Len(out) } = lattice
           /\ (x_range = <<0, 10>> /\ y_range = <<0, 10>> /\ centre_spacing = 5) =>
                 { out[n] : n \in 1..Len(out) } = {0, 5, 10} \X {0, 5, 10}

\* the example: x_range = (0,10), y_range = (0,10), spacing = 5 has returned
C6_Witness ==
    /\ Returned("grid") /\ pred = "all"
    /\ x_range = <<0, 10>> /\ y_range = <<0, 10>> /\ centre_spacing = 5
    /\ Len(out) = 9

\* the outer scan has visited cell c and none of its k seed attempts passed
FailedSeed(c) == checked[c] /\ points[c] = NoPoint

\* C7, as claimed: a cell whose k seed attempts all failed holds no point for the
\* rest of the run, whatever happens later.
C7_FailedCellStaysEmpty ==
    [][\A c \in Slots : FailedSeed(c) => points'[c] = NoPoint]_vars

\* C7, amended: a cell whose k seed attempts all failed is never retried by the
\* outer scan: it stays checked and no seed point is stored in it. It holds no
\* point unless a later offspring candidate whose _cell_index is that cell passes
\* _is_valid, and then that offspring is stored in it.
C7_FailedCellOnlyOffspring ==
    [][\A c \in Slots :
          FailedSeed(c) =>
              /\ checked'[c]
              /\ points'[c] # NoPoint =>
                    (pc = "offspring" /\ CellSlot(points'[c]) = c /\ points'[c] \in BridsonPoints(base))]_vars

\* the call has returned with a cell whose seed attempts all failed still empty,
\* and another cell occupied
C7_Witness ==
    /\ Returned("bridson")
    /\ \E c \in Slots : FailedSeed(c)
    /\ Occupied # {}

\* the 20 neighbour cells of the kernel: within two rows and two columns, the
\* cell itself and the four corners excepted
KernelCell(c, d) ==
    /\ d # c
    /\ Abs(d[1] - c[1]) <= 2 /\ Abs(d[2] - c[2]) <= 2
    /\ ~(Abs(d[1] - c[1]) = 2 /\ Abs(d[2] - c[2]) = 2)

\* C8: valid_predicate is evaluated only for a candidate whose cell index is
\* inside the grid, whose cell is not occupied, and which has no occupied point
\* at distance < centre_spacing in one of the 20 kernel neighbour cells.
C8_PredicateAfterCheapChecks ==
    [][(evals' > evals /\ strategy = "bridson") =>
          /\ evalAt' # NoPoint
          /\ CellSlot(evalAt') \in Slots
          /\ points[CellSlot(evalAt')] = NoPoint
          /\ \A d \in Slots :
                (KernelCell(CellSlot(evalAt'), d) /\ points[d] # NoPoint) =>
                    Dist2(points[d], evalAt') >= Sq(centre_spacing)]_vars

\* the predicate has just been evaluated for a candidate while another cell of
\* the grid holds a point, and it has rejected the candidate
C8_Witness ==
    /\ strategy = "bridson"
    /\ evalAt # NoPoint
    /\ Occupied # {}
    /\ \A c \in Occupied : points[c] # evalAt

\* C9: the active list is empty whenever the outer scan is at a grid cell and
\* when generate_points() returns; the list is popped at its end (LIFO); every
\* accepted point is pushed exactly once and popped exactly once.
C9_ActiveDrained ==
    /\ []((strategy = "bridson" /\ pc \in {"scan", "done"}) =>
            /\ active = <<>>
            /\ pushed = popped
            /\ \A p \in BagToSet(pushed) : CopiesIn(p, pushed) = 1
            /\ calls = 1 => BagToSet(pushed) = { points[c] : c \in Occupied })
    /\ [][Len(active') < Len(active) =>
            /\ active' = SubSeq(active, 1, Len(active) - 1)
            /\ base' = active[Len(active)]]_vars

\* the outer scan is at a later cell after three or more points were pushed and
\* popped
C9_Witness ==
    /\ strategy = "bridson" /\ pc = "scan"
    /\ <<i, j>> # <<0, 0>>
    /\ BagCardinality(popped) >= 3

\* C10: the sequence BridsonFillStrategy.generate_points() returns holds exactly
\* the points of the occupied grid slots, one per slot, in row-major order of the
\* slots (row index i, then column index j).
C10_OutputRowMajor ==
    Returned("bridson") =>
        /\ Len(out) = Cardinality(Occupied)
        /\ \A n \in 1..Len(out) :
              \E c \in Occupied :
                  /\ points[c] = out[n]
                  /\ Cardinality({ d \in Occupied :
                                     d[1] < c[1] \/ (d[1] = c[1] /\ d[2] < c[2]) }) = n - 1

\* a returned output of a 2 x 2 grid with three or more points
C10_Witness ==
    /\ Returned("bridson")
    /\ x_steps = 2 /\ y_steps = 2
    /\ Len(out) >= 3

\* C11: every point held in a grid slot lies in that slot's cell: the cell index
\* computed for the point stored in _points[i][j] is column j, row i, for seed
\* points and for offspring alike.
C11_StoredPointInItsCell ==
    strategy = "bridson" =>
        \A c \in Occupied : CellSlot(points[c]) = c

====
